---- MODULE Spec2Model ----
(***************************************************************************)
(* A model of transaction_aggregator.py: the TransactionAggregator class   *)
(* (read, convert, date-filter, category-translate, merge, write) and the  *)
(* properties stated about it.                                             *)
(*                                                                         *)
(* Data representation                                                     *)
(*   - a date string "MM/DD/YYYY" is the tuple <<mm, dd, yyyy>>;           *)
(*     date(arg) is the datetime strptime returns, as a day number whose   *)
(*     order is the chronological order;                                   *)
(*   - a numeric cell is a sequence of one-character strings, so that      *)
(*     '-' + cell, cell.replace(',', '') and float(cell) are computed;     *)
(*   - a raw record (a dict) is a function from column names to cells;     *)
(*   - a canonical entry is a record [Date, Description, Amount, Category];*)
(*   - the alias table (an insertion-ordered dict) is a sequence of        *)
(*     [name, aliases] with distinct names.                                *)
(***************************************************************************)
EXTENDS Integers, Sequences, FiniteSets, TLC

VARIABLES
    pc,                          \* control point of the run or of the stage
    statements,                  \* the list of statements a stage works on
    input,                       \* history: the stage's argument as passed; in
                                 \* a run, the calls of __read_statement so far
    start_date,                  \* self.__start_date (a datetime)
    end_date,                    \* self.__end_date (a datetime)
    translations,                \* contents of categories.yaml ['Conversions']
    loads,                       \* number of times categories.yaml was loaded
    printed,                     \* lines printed to stdout
    result,                      \* return value or raised exception of the stage
    fs,                          \* the statement files: path -> rows of cells
    bank_args,                   \* args.bank_statements (None or a list of paths)
    discover_args,               \* args.discover_credit_statements
    bank_statements,             \* self.__bank_statements
    discover_credit_statements,  \* self.__discover_credit_statements
    all_entries,                 \* the merged ledger built by write_to_csv
    sheets_csv,                  \* <file>_google_sheets.csv as written
    analysis_csv                 \* <file>.csv as written

\* The state of a whole run, unused while a single stage is exercised.
run == <<bank_args, discover_args, bank_statements, discover_credit_statements,
         all_entries, sheets_csv, analysis_csv>>

vars == <<pc, statements, input, start_date, end_date, translations, loads,
          printed, result, fs, run>>

None == "None"

\* An optional list: None, or a list.
NoList == [none |-> TRUE, list |-> <<>>]
List(l) == [none |-> FALSE, list |-> l]

\* An output file: not created, or created with the rows written to it.
Absent == [exists |-> FALSE, rows |-> <<>>]
Written(rows) == [exists |-> TRUE, rows |-> rows]

\* A call either returns a value or raises; Pending before it ends.
Return(v) == [error |-> None, value |-> v]
Raise(e) == [error |-> e, value |-> <<>>]
Pending == [error |-> "pending", value |-> <<>>]

RunUnused ==
    /\ bank_args = NoList
    /\ discover_args = NoList
    /\ bank_statements = NoList
    /\ discover_credit_statements = NoList
    /\ all_entries = <<>>
    /\ sheets_csv = Absent
    /\ analysis_csv = Absent

\* Bounds of the model.
MaxStatements == 1
MaxEntries == 3
MaxTranslated == 2
MaxCellLen == 3
MaxConverted == 1
MaxRows == 2
MaxFiles == 2

\* Sequences over S of length at most n.
SeqUpTo(S, n) == UNION {[1..k -> S] : k \in 0..n}

-----------------------------------------------------------------------------
(* Dates *)

\* Three consecutive days across a year boundary (MM, DD, YYYY).
D1 == <<12, 31, 2023>>
D2 == <<1, 1, 2024>>
D3 == <<1, 2, 2024>>
Dates == {D1, D2, D3}

\* date(arg): strptime(arg, '%m/%d/%Y'), as a chronologically ordered number.
date(arg) == arg[3] * 10000 + arg[1] * 100 + arg[2]

-----------------------------------------------------------------------------
(* __filter_statements *)

\* The list comprehension over entry_id in range(len(statement)).
RECURSIVE filter_from(_, _, _, _)
filter_from(statement, entry_id, start, end) ==
    IF entry_id > Len(statement) THEN <<>>
    ELSE (IF date(statement[entry_id].Date) >= start
             /\ date(statement[entry_id].Date) <= end
          THEN <<statement[entry_id]>> ELSE <<>>)
         \o filter_from(statement, entry_id + 1, start, end)

\* Mutant: removing by index while iterating under the same cursor.
RECURSIVE filter_by_deletion(_, _, _, _)
filter_by_deletion(statement, entry_id, start, end) ==
    IF entry_id > Len(statement) THEN statement
    ELSE IF date(statement[entry_id].Date) >= start
            /\ date(statement[entry_id].Date) <= end
         THEN filter_by_deletion(statement, entry_id + 1, start, end)
         ELSE filter_by_deletion(
                  SubSeq(statement, 1, entry_id - 1)
                      \o SubSeq(statement, entry_id + 1, Len(statement)),
                  entry_id + 1, start, end)

FilterStatementMutant(statement, start, end) ==
    filter_by_deletion(statement, 1, start, end)

FilterStatement(statement, start, end) == filter_from(statement, 1, start, end)

\* for statement_id in range(len(statements)): statements[statement_id] = [...]
filter_statements(stmts, start, end) ==
    [statement_id \in 1..Len(stmts) |->
        FilterStatement(stmts[statement_id], start, end)]

-----------------------------------------------------------------------------
(* Specification of the date filter stage *)

FilterEntry(d) == [Date |-> d, Description |-> "d", Amount |-> 1, Category |-> "x"]

FilterInputs ==
    SeqUpTo(SeqUpTo({FilterEntry(d) : d \in Dates}, MaxEntries), MaxStatements)

InitFilter ==
    /\ pc = "filter"
    /\ statements \in FilterInputs
    /\ input = statements
    /\ start_date \in {date(d) : d \in Dates}
    /\ end_date \in {date(d) : d \in Dates}
    /\ translations = <<>>
    /\ loads = 0
    /\ printed = <<>>
    /\ result = Pending
    /\ fs = <<>>
    /\ RunUnused

FilterStatements ==
    /\ pc = "filter"
    /\ statements' = filter_statements(statements, start_date, end_date)
    /\ result' = Return(statements')
    /\ pc' = "done"
    /\ UNCHANGED <<input, start_date, end_date, translations, loads, printed, fs, run>>

NextFilter == FilterStatements

SpecFilter == InitFilter /\ [][NextFilter]_vars

InRange(e) == start_date <= date(e.Date) /\ date(e.Date) <= end_date

\* C1: after __filter_statements every statement is exactly the subsequence of
\* its in-range entries: the k-th in-range entry of the input (dates equal to
\* start or end included) is the k-th entry of the output, and nothing else is
\* in the output.
C1_FilterIsSubsequence ==
    pc = "done" =>
        /\ Len(statements) = Len(input)
        /\ \A s \in 1..Len(input) :
            LET in == input[s]
                out == statements[s]
                kept == {i \in 1..Len(in) : InRange(in[i])}
            IN /\ Len(out) = Cardinality(kept)
               /\ \A i \in kept :
                    out[Cardinality({j \in kept : j <= i})] = in[i]

\* Witness: a statement with an entry dated exactly start, one dated exactly
\* end, one a day outside, filtered.
C1_Witness ==
    /\ pc = "done"
    /\ \E s \in 1..Len(input) :
        /\ \E i \in 1..Len(input[s]) : date(input[s][i].Date) = start_date
        /\ \E i \in 1..Len(input[s]) : date(input[s][i].Date) = end_date
        /\ \E i \in 1..Len(input[s]) : ~InRange(input[s][i])
        /\ Len(statements[s]) = 2
    /\ start_date < end_date

-----------------------------------------------------------------------------
(* __translate_categories *)

Names == {"A", "B"}                     \* canonical category names
AliasStrings == {"A", "B", "x"}         \* strings an alias list may hold
Categories == {"A", "B", "x"}           \* raw categories of transactions

\* The 'Conversions' mapping: an insertion-ordered dict, keys distinct.
Tables ==
    {t \in SeqUpTo([name : Names, aliases : SUBSET AliasStrings], Cardinality(Names)) :
        \A i, j \in 1..Len(t) : i # j => t[i].name # t[j].name}

\* Mutant: the test without its name comparison (alias lists only).
MatchesAliasOnly(category, conversion) == category \in conversion.aliases

\* entry['Category'] == true_category or entry['Category'] in translations[true_category]
Matches(category, conversion) ==
    category = conversion.name \/ category \in conversion.aliases

\* for true_category in translations.keys(): ... break
\* The position of the first matching key, 0 when the loop ends without a match.
RECURSIVE match_from(_, _, _)
match_from(category, table, k) ==
    IF k > Len(table) THEN 0
    ELSE IF Matches(category, table[k]) THEN k
    ELSE match_from(category, table, k + 1)

\* Mutant: the loop without its break (the last matching key wins).
RECURSIVE match_last_from(_, _, _)
match_last_from(category, table, k) ==
    IF k < 1 THEN 0
    ELSE IF Matches(category, table[k]) THEN k
    ELSE match_last_from(category, table, k - 1)

FoundMatchLast(category, table) == match_last_from(category, table, Len(table))

\* Mutant: exact canonical names looked up before any alias list.
FoundMatchExactFirst(category, table) ==
    IF \E k \in 1..Len(table) : table[k].name = category
    THEN CHOOSE k \in 1..Len(table) : table[k].name = category
    ELSE match_from(category, table, 1)

FoundMatch(category, table) == match_from(category, table, 1)

\* Mutant: an unmatched category is dropped instead of kept.
translate_entry_clearing(entry, table) ==
    LET k == FoundMatch(entry.Category, table)
    IN [entry EXCEPT !.Category = IF k > 0 THEN table[k].name ELSE None]

\* The body of the entry loop: entry['Category'] = true_category on a match.
translate_entry(entry, table) ==
    LET k == FoundMatch(entry.Category, table)
    IN IF k > 0 THEN [entry EXCEPT !.Category = table[k].name] ELSE entry

\* print(f'MESSAGE: {entry['Category']} not found in database')
Line(text, value) == [text |-> text, value |-> value]

Message(category) == Line("MESSAGE: not found in database", category)

entry_messages(entry, table) ==
    IF FoundMatch(entry.Category, table) > 0 THEN <<>>
    ELSE <<Message(entry.Category)>>

\* The concatenation of a list of lists, in order.
RECURSIVE Concat(_)
Concat(lists) ==
    IF lists = <<>> THEN <<>> ELSE Head(lists) \o Concat(Tail(lists))

translate_statements(stmts, table) ==
    [statement_id \in 1..Len(stmts) |->
        [entry_id \in 1..Len(stmts[statement_id]) |->
            translate_entry(stmts[statement_id][entry_id], table)]]

translate_messages(stmts, table) ==
    Concat([statement_id \in 1..Len(stmts) |->
        Concat([entry_id \in 1..Len(stmts[statement_id]) |->
            entry_messages(stmts[statement_id][entry_id], table)])])

-----------------------------------------------------------------------------
(* Specification of the category translation stage *)

TranslateEntry(c) ==
    [Date |-> D1, Description |-> "d", Amount |-> 1, Category |-> c]

TranslateInputs ==
    SeqUpTo(SeqUpTo({TranslateEntry(c) : c \in Categories}, MaxTranslated),
            MaxStatements)

InitTranslate ==
    /\ pc = "translate"
    /\ statements \in TranslateInputs
    /\ input = statements
    /\ start_date = date(D1)
    /\ end_date = date(D3)
    /\ translations \in Tables
    /\ loads = 0
    /\ printed = <<>>
    /\ result = Pending
    /\ fs = <<>>
    /\ RunUnused

TranslateCategories ==
    /\ pc = "translate"
    /\ loads' = loads + 1
    /\ statements' = translate_statements(statements, translations)
    /\ printed' = printed \o translate_messages(statements, translations)
    /\ result' = Return(statements')
    /\ pc' = "done"
    /\ UNCHANGED <<input, start_date, end_date, translations, fs, run>>

NextTranslate == TranslateCategories

SpecTranslate == InitTranslate /\ [][NextTranslate]_vars

\* The table positions whose canonical category matches a raw category.
MatchingKeys(category) ==
    {k \in 1..Len(translations) :
        category = translations[k].name \/ category \in translations[k].aliases}

Least(S) == CHOOSE k \in S : \A j \in S : k <= j

SameShape ==
    /\ Len(statements) = Len(input)
    /\ \A s \in 1..Len(input) : Len(statements[s]) = Len(input[s])

\* C3: every transaction whose raw category matches some canonical category
\* (by name or by alias) is rewritten to the first matching canonical name in
\* the table's enumeration order, never to a later one.
C3_FirstMatchWins ==
    pc = "done" =>
        /\ SameShape
        /\ \A s \in 1..Len(input) : \A e \in 1..Len(input[s]) :
            LET M == MatchingKeys(input[s][e].Category)
            IN M # {} =>
                statements[s][e] =
                    [input[s][e] EXCEPT !.Category = translations[Least(M)].name]

\* Witness: a category matched by two canonical categories was translated.
C3_Witness ==
    /\ pc = "done"
    /\ \E s \in 1..Len(input) : \E e \in 1..Len(input[s]) :
        /\ Cardinality(MatchingKeys(input[s][e].Category)) = 2
        /\ statements[s][e].Category # input[s][e].Category

\* The canonical categories other than the one named `category` that list
\* `category` as an alias.
AliasHolders(category) ==
    {j \in 1..Len(translations) :
        /\ translations[j].name # category
        /\ category \in translations[j].aliases}

IsCanonical(category) == \E k \in 1..Len(translations) : translations[k].name = category

KeyOf(category) == CHOOSE k \in 1..Len(translations) : translations[k].name = category

\* C4 as stated: a raw category that equals a canonical name and is also an
\* alias of a different canonical category resolves to the exactly-named
\* category, whatever the order of the two in the table.
C4_ExactNameWins ==
    pc = "done" =>
        \A s \in 1..Len(input) : \A e \in 1..Len(input[s]) :
            LET c == input[s][e].Category
            IN (IsCanonical(c) /\ AliasHolders(c) # {}) =>
                statements[s][e].Category = c

\* C4 as amended: in that case the exactly-named category wins exactly when it
\* is enumerated before every category listing the string as an alias;
\* otherwise the first category listing it as an alias wins.
C4_ExactNameWinsWhenFirst ==
    pc = "done" =>
        \A s \in 1..Len(input) : \A e \in 1..Len(input[s]) :
            LET c == input[s][e].Category
            IN (IsCanonical(c) /\ AliasHolders(c) # {}) =>
                statements[s][e].Category =
                    IF KeyOf(c) < Least(AliasHolders(c)) THEN c
                    ELSE translations[Least(AliasHolders(c))].name

\* Witness: a canonical name listed as an alias of an earlier category was
\* translated, to that earlier category.
C4_Witness ==
    /\ pc = "done"
    /\ \E s \in 1..Len(input) : \E e \in 1..Len(input[s]) :
        LET c == input[s][e].Category
        IN /\ IsCanonical(c)
           /\ AliasHolders(c) # {}
           /\ Least(AliasHolders(c)) < KeyOf(c)
           /\ statements[s][e].Category = translations[Least(AliasHolders(c))].name

\* C5 as stated: translating a translated category again changes nothing, and
\* every canonical name translates to itself.
C5_Idempotent ==
    pc = "done" =>
        \A s \in 1..Len(input) : \A e \in 1..Len(input[s]) :
            /\ translate_entry(statements[s][e], translations) = statements[s][e]
            /\ IsCanonical(input[s][e].Category) =>
                    statements[s][e].Category = input[s][e].Category

\* The categories enumerated before canonical category t that list t as an alias.
EarlierHolders(t) == {j \in AliasHolders(t) : IsCanonical(t) => j < KeyOf(t)}

\* C5 as amended: translating a translated category t again yields t, unless t
\* is listed as an alias of a canonical category enumerated before it; then it
\* yields the first such category. A canonical name translates to itself under
\* the same condition.
C5_IdempotentUnlessAliasedEarlier ==
    pc = "done" =>
        \A s \in 1..Len(input) : \A e \in 1..Len(input[s]) :
            LET t == statements[s][e].Category
                c == input[s][e].Category
            IN /\ translate_entry(statements[s][e], translations).Category =
                    IF EarlierHolders(t) = {} THEN t
                    ELSE translations[Least(EarlierHolders(t))].name
               /\ IsCanonical(c) =>
                    statements[s][e].Category =
                        IF EarlierHolders(c) = {} THEN c
                        ELSE translations[Least(EarlierHolders(c))].name

\* Witness: a raw category was translated to a canonical category that an
\* earlier category lists as an alias, so that a second translation moves it.
C5_Witness ==
    /\ pc = "done"
    /\ \E s \in 1..Len(input) : \E e \in 1..Len(input[s]) :
        /\ statements[s][e].Category # input[s][e].Category
        /\ EarlierHolders(statements[s][e].Category) # {}
        /\ translate_entry(statements[s][e], translations) # statements[s][e]

Unmatched(entry) == MatchingKeys(entry.Category) = {}

\* C6: a transaction whose category matches no canonical name and no alias
\* keeps its category and stays in the output; the stage returns normally, and
\* the diagnostics printed are exactly one per unmatched transaction, in
\* order, each naming the unmatched value.
C6_UnmatchedPassesThrough ==
    pc = "done" =>
        /\ SameShape
        /\ result = Return(statements)
        /\ \A s \in 1..Len(input) : \A e \in 1..Len(input[s]) :
            Unmatched(input[s][e]) => statements[s][e] = input[s][e]
        /\ LET all == Concat(input)
               U == {i \in 1..Len(all) : Unmatched(all[i])}
           IN /\ Len(printed) = Cardinality(U)
              /\ \A i \in U :
                    printed[Cardinality({j \in U : j <= i})] =
                        Message(all[i].Category)

\* Witness: an unmatched transaction followed by a matched one; the first is
\* kept as it was, the second is translated.
C6_Witness ==
    /\ pc = "done"
    /\ \E s \in 1..Len(input) :
        /\ Len(input[s]) = 2
        /\ Unmatched(input[s][1])
        /\ statements[s][1] = input[s][1]
        /\ ~Unmatched(input[s][2])
        /\ statements[s][2].Category # input[s][2].Category
        /\ Len(printed) = 1

-----------------------------------------------------------------------------
(* Results, numeric cells and float() *)

Digits == {"1", "2"}
Chars == Digits \cup {"-", ","}
Cells == SeqUpTo(Chars, MaxCellLen)

IsDigits(s) == Len(s) >= 1 /\ \A i \in 1..Len(s) : s[i] \in Digits

DigitValue(c) == IF c = "1" THEN 1 ELSE 2

RECURSIVE DigitsValue(_)
DigitsValue(s) ==
    IF s = <<>> THEN 0
    ELSE 10 * DigitsValue(SubSeq(s, 1, Len(s) - 1)) + DigitValue(s[Len(s)])

\* float(text) accepts an optional sign followed by digits; anything else
\* (an empty string, a second sign, a thousands separator) is a ValueError.
FloatAccepts(text) ==
    \/ IsDigits(text)
    \/ Len(text) >= 2 /\ text[1] = "-" /\ IsDigits(Tail(text))

FloatValue(text) ==
    IF text[1] = "-" THEN 0 - DigitsValue(Tail(text)) ELSE DigitsValue(text)

\* text.replace(',', '')
StripCommas(text) == SelectSeq(text, LAMBDA c : c # ",")

-----------------------------------------------------------------------------
(* __convert_bank_statement, __convert_discover_statement *)

BankDeleted == {"Account Number", "Check", "Status", "Balance"}

\* The text handed to float(): entry.pop('Debit') if not entry['Debit'] == ''
\* else '-' + entry.pop('Credit')
bank_amount_text(entry) ==
    IF entry["Debit"] # <<>> THEN entry["Debit"] ELSE <<"-">> \o entry["Credit"]

\* One pass of the loop body over a bank entry; a missing key raises KeyError,
\* a text float() rejects raises ValueError.
convert_bank_entry(entry) ==
    IF ~(BankDeleted \cup {"Post Date", "Description", "Debit"} \subseteq DOMAIN entry)
    THEN Raise("KeyError")
    ELSE IF entry["Debit"] = <<>> /\ "Credit" \notin DOMAIN entry
    THEN Raise("KeyError")
    ELSE IF ~FloatAccepts(bank_amount_text(entry))
    THEN Raise("ValueError")
    ELSE IF "Classification" \notin DOMAIN entry
    THEN Raise("KeyError")
    ELSE Return([Date |-> entry["Post Date"],
                 Description |-> entry["Description"],
                 Amount |-> FloatValue(bank_amount_text(entry)),
                 Category |-> entry["Classification"]])

convert_discover_entry(entry) ==
    IF ~({"Post Date", "Trans. Date", "Description", "Amount"} \subseteq DOMAIN entry)
    THEN Raise("KeyError")
    ELSE IF ~FloatAccepts(StripCommas(entry["Amount"]))
    THEN Raise("ValueError")
    ELSE IF "Category" \notin DOMAIN entry
    THEN Raise("KeyError")
    ELSE Return([Date |-> entry["Trans. Date"],
                 Description |-> entry["Description"],
                 Amount |-> FloatValue(StripCommas(entry["Amount"])),
                 Category |-> entry["Category"]])

convert_entry(entry, converter) ==
    IF converter = "bank" THEN convert_bank_entry(entry)
    ELSE convert_discover_entry(entry)

\* for entry_id in range(len(statement)): the first entry that raises ends
\* the call with its exception.
convert_statement(statement, converter) ==
    LET converted == [entry_id \in 1..Len(statement) |->
                        convert_entry(statement[entry_id], converter)]
        failed == {entry_id \in 1..Len(statement) : converted[entry_id].error # None}
    IN IF failed # {}
       THEN Raise(converted[CHOOSE i \in failed : \A j \in failed : i <= j].error)
       ELSE Return([entry_id \in 1..Len(statement) |-> converted[entry_id].value])

-----------------------------------------------------------------------------
(* Specification of the converters *)

BankHeader ==
    <<"Post Date", "Description", "Debit", "Credit", "Classification",
      "Account Number", "Check", "Status", "Balance">>

DiscoverHeader == <<"Trans. Date", "Post Date", "Description", "Amount", "Category">>

\* A cell of each column; the columns a claim is about vary in Init.
DefaultCell(column) ==
    IF column \in {"Post Date", "Trans. Date"} THEN D1
    ELSE IF column \in {"Debit", "Amount"} THEN <<"1">>
    ELSE IF column \in {"Credit", "Balance"} THEN <<>>
    ELSE IF column \in {"Classification", "Category"} THEN "x"
    ELSE "d"

BankRecord(debit, credit) ==
    [column \in {BankHeader[i] : i \in 1..Len(BankHeader)} |->
        IF column = "Debit" THEN debit
        ELSE IF column = "Credit" THEN credit
        ELSE DefaultCell(column)]

DiscoverRecord(amount) ==
    [column \in {DiscoverHeader[i] : i \in 1..Len(DiscoverHeader)} |->
        IF column = "Amount" THEN amount ELSE DefaultCell(column)]

InitConvert ==
    /\ pc \in {"bank", "discover"}
    /\ statements \in
        IF pc = "bank"
        THEN SeqUpTo({BankRecord(d, c) : d \in Cells, c \in Cells}, MaxConverted)
        ELSE SeqUpTo({DiscoverRecord(a) : a \in Cells}, MaxConverted)
    /\ input = statements
    /\ start_date = date(D1)
    /\ end_date = date(D3)
    /\ translations = <<>>
    /\ loads = 0
    /\ printed = <<>>
    /\ result = Pending
    /\ fs = <<>>
    /\ RunUnused

ConvertBankStatement ==
    /\ pc = "bank"
    /\ result' = convert_statement(statements, "bank")
    /\ statements' = result'.value
    /\ pc' = "done"
    /\ UNCHANGED <<input, start_date, end_date, translations, loads, printed, fs, run>>

ConvertDiscoverStatement ==
    /\ pc = "discover"
    /\ result' = convert_statement(statements, "discover")
    /\ statements' = result'.value
    /\ pc' = "done"
    /\ UNCHANGED <<input, start_date, end_date, translations, loads, printed, fs, run>>

NextConvert == ConvertBankStatement \/ ConvertDiscoverStatement

SpecConvert == InitConvert /\ [][NextConvert]_vars

IsBankRecord(entry) == "Debit" \in DOMAIN entry

\* C8 as stated: every bank row whose Debit cell is non-empty yields
\* amount = value(Debit), and every bank row whose Debit cell is empty yields
\* amount = -value(Credit) (value being the number the cell's text denotes).
C8_BankAmountSign ==
    (pc = "done" /\ Len(input) = 1 /\ IsBankRecord(input[1])) =>
        LET debit == input[1]["Debit"]
            credit == input[1]["Credit"]
        IN /\ (debit # <<>> /\ FloatAccepts(debit)) =>
                (result.error = None /\ statements[1].Amount = FloatValue(debit))
           /\ (debit = <<>> /\ FloatAccepts(credit)) =>
                (result.error = None /\ statements[1].Amount = 0 - FloatValue(credit))

\* The same rule on the rows the interface describes (unsigned amounts): it
\* holds there; see C8_BankAmountSign for the rows on which it fails.
C8_BankAmountSignUnsigned ==
    (pc = "done" /\ Len(input) = 1 /\ IsBankRecord(input[1])) =>
        LET debit == input[1]["Debit"]
            credit == input[1]["Credit"]
        IN /\ IsDigits(debit) =>
                (result.error = None /\ statements[1].Amount = DigitsValue(debit))
           /\ (debit = <<>> /\ IsDigits(credit)) =>
                (result.error = None /\ statements[1].Amount = 0 - DigitsValue(credit))

-----------------------------------------------------------------------------
(* __read_statement *)

\* {keys[element_id]: entry[element_id] for element_id in range(len(entry))}
\* (a later duplicate of a key overwrites an earlier one)
raw_record(keys, entry) ==
    [key \in {keys[element_id] : element_id \in 1..Len(entry)} |->
        entry[CHOOSE element_id \in 1..Len(entry) :
                /\ keys[element_id] = key
                /\ \A other \in 1..Len(entry) :
                        keys[other] = key => other <= element_id]]

\* file: the rows csv.reader yields, the header first. An entry with more
\* cells than the header raises IndexError at keys[element_id]; an entry with
\* fewer cells gives a record without the trailing columns.
read_statement(file, converter) ==
    LET keys == file[1]
        raw_statement == Tail(file)
    IN IF \E entry_id \in 1..Len(raw_statement) :
              Len(raw_statement[entry_id]) > Len(keys)
       THEN Raise("IndexError")
       ELSE LET records == [entry_id \in 1..Len(raw_statement) |->
                                raw_record(keys, raw_statement[entry_id])]
            IN IF converter = None THEN Return(records)
               ELSE convert_statement(records, converter)

-----------------------------------------------------------------------------
(* Specification of reading one statement file *)

Path == "a.csv"

\* A row of `n` cells under header `keys` (cells past the header are "d").
RowOfLength(keys, n) ==
    [i \in 1..n |-> IF i <= Len(keys) THEN DefaultCell(keys[i]) ELSE "d"]

ReadHeaders(kind) ==
    IF kind = "bank" THEN {BankHeader, BankHeader \o <<"Memo">>}
    ELSE {DiscoverHeader, DiscoverHeader \o <<"Memo">>}

ReadFiles(kind) ==
    {<<keys>> \o rows :
        keys \in ReadHeaders(kind),
        rows \in SeqUpTo({RowOfLength(h, n) :
                            h \in ReadHeaders(kind), n \in 0..(Len(BankHeader) + 2)},
                         MaxRows)}

InitRead ==
    /\ pc \in {"read_bank", "read_discover"}
    /\ fs \in [{Path} -> ReadFiles(IF pc = "read_bank" THEN "bank" ELSE "discover")]
    /\ statements = <<>>
    /\ input = fs[Path]
    /\ start_date = date(D1)
    /\ end_date = date(D3)
    /\ translations = <<>>
    /\ loads = 0
    /\ printed = <<>>
    /\ result = Pending
    /\ RunUnused

ReadBankStatement ==
    /\ pc = "read_bank"
    /\ result' = read_statement(fs[Path], "bank")
    /\ statements' = result'.value
    /\ pc' = "done"
    /\ UNCHANGED <<input, start_date, end_date, translations, loads, printed, fs, run>>

ReadDiscoverStatement ==
    /\ pc = "read_discover"
    /\ result' = read_statement(fs[Path], "discover")
    /\ statements' = result'.value
    /\ pc' = "done"
    /\ UNCHANGED <<input, start_date, end_date, translations, loads, printed, fs, run>>

NextRead == ReadBankStatement \/ ReadDiscoverStatement

SpecRead == InitRead /\ [][NextRead]_vars

\* C9 as stated: whenever a data row has more or fewer cells than the header
\* row (an empty row included), reading the file fails, so no record comes
\* out of such a file.
C9_CellCountMismatchFails ==
    pc = "done" =>
        ((\E r \in 2..Len(input) : Len(input[r]) # Len(input[1]))
            => result.error # None)

-----------------------------------------------------------------------------
(* __read_in_statements, __clean_statements *)

\* with open(statement_file) as csv_file: the file system is a function from
\* the paths that exist to their rows; open() of another path raises.
open_statement(files, path, converter) ==
    IF path \notin DOMAIN files THEN Raise("FileNotFoundError")
    ELSE read_statement(files[path], converter)

\* The converter __read_in_statements passes for its two flags.
converter_of(is_discover, is_bank) ==
    IF is_discover THEN "discover" ELSE IF is_bank THEN "bank" ELSE None

ConflictError == "RuntimeError: statement cannot be both a discover and bank statement"

\* The index of the first call of __read_statement that raises, or 0.
first_failure(files, paths, converter) ==
    LET failed == {i \in 1..Len(paths) :
                        open_statement(files, paths[i], converter).error # None}
    IN IF failed = {} THEN 0 ELSE CHOOSE i \in failed : \A j \in failed : i <= j

\* Mutant: a file that cannot be read or converted is left out.
read_in_statements_skipping(files, paths, is_discover, is_bank) ==
    LET converter == converter_of(is_discover, is_bank)
        read == SelectSeq([i \in 1..Len(paths) |->
                                open_statement(files, paths[i], converter)],
                          LAMBDA r : r.error = None)
    IN Return([i \in 1..Len(read) |-> read[i].value])

\* if is_discover and is_bank: raise RuntimeError(...)
\* [self.__read_statement(statement, converter) for statement in statements]:
\* the first file that raises ends the call with its exception.
read_in_statements(files, paths, is_discover, is_bank) ==
    LET converter == converter_of(is_discover, is_bank)
        failure == first_failure(files, paths, converter)
    IN IF is_discover /\ is_bank THEN Raise(ConflictError)
       ELSE IF failure # 0
       THEN Raise(open_statement(files, paths[failure], converter).error)
       ELSE Return([i \in 1..Len(paths) |->
                        open_statement(files, paths[i], converter).value])

\* The calls of __read_statement one call of __read_in_statements makes: one
\* per path in list order, up to the first that raises.
read_calls(files, paths, converter) ==
    LET failure == first_failure(files, paths, converter)
    IN [i \in 1..(IF failure = 0 THEN Len(paths) ELSE failure) |->
            <<paths[i], converter>>]

\* The statements __clean_statements hands to __translate_categories: each
\* call passes the one flag it was given.
filtered_statements(files, paths, is_discover, is_bank, start, end) ==
    LET read == IF is_bank THEN read_in_statements(files, paths, FALSE, TRUE)
                ELSE read_in_statements(files, paths, TRUE, FALSE)
    IN IF read.error # None THEN read
       ELSE Return(filter_statements(read.value, start, end))

-----------------------------------------------------------------------------
(* write_to_csv *)

attributes == <<"Date", "Description", "Amount", "Category">>

\* [entry[element] for element in attributes]
entry_row(entry) == <<entry.Date, entry.Description, entry.Amount, entry.Category>>

\* for statement in stmts: for entry in statement: all_entries.append(...)
statement_rows(stmts) ==
    IF stmts.none THEN <<>>
    ELSE LET entries == Concat(stmts.list)
         IN [i \in 1..Len(entries) |-> entry_row(entries[i])]

\* all_entries before the sort: credit-card statements, then bank statements.
appended_entries(discover, bank) ==
    statement_rows(discover) \o statement_rows(bank)

\* Mutant: an ascending sort reversed (entries of equal date change order).
RECURSIVE insert_before_equal(_, _)
insert_before_equal(sorted, entry) ==
    IF sorted = <<>> THEN <<entry>>
    ELSE IF date(Head(sorted)[1]) > date(entry[1])
         THEN <<Head(sorted)>> \o insert_before_equal(Tail(sorted), entry)
         ELSE <<entry>> \o sorted

\* list.sort is stable, also with reverse=True: an entry goes after every
\* entry already placed whose key is greater or equal.
RECURSIVE insert_sorted(_, _)
insert_sorted(sorted, entry) ==
    IF sorted = <<>> THEN <<entry>>
    ELSE IF date(Head(sorted)[1]) >= date(entry[1])
         THEN <<Head(sorted)>> \o insert_sorted(Tail(sorted), entry)
         ELSE <<entry>> \o sorted

\* all_entries.sort(reverse=True, key=lambda entry: date(entry[0]))
RECURSIVE sort_entries(_)
sort_entries(entries) ==
    IF entries = <<>> THEN <<>>
    ELSE insert_sorted(sort_entries(SubSeq(entries, 1, Len(entries) - 1)),
                       entries[Len(entries)])

\* The decimal digits of a natural number.
RECURSIVE DigitsOf(_)
DigitsOf(n) ==
    IF n < 10 THEN <<IF n = 1 THEN "1" ELSE IF n = 2 THEN "2" ELSE "0">>
    ELSE DigitsOf(n \div 10) \o DigitsOf(n % 10)

\* str() of a float holding a whole number: sign, digits, ".0".
FloatStr(x) ==
    (IF x < 0 THEN <<"-">> ELSE <<>>)
        \o DigitsOf(IF x < 0 THEN 0 - x ELSE x) \o <<".", "0">>

\* csv.writer writes None as an empty field.
Blank == ""

\* Mutant: the date first, as in the analysis layout.
sheet_row_date_first(entry) ==
    <<entry[1], entry[2], Blank, FloatStr(entry[3]), Blank, FloatStr(entry[3]),
      Blank, Blank, Blank, entry[4]>>

\* row = [str(entry[1]), str(entry[3]), None, str(entry[2]), None,
\*        str(entry[2]), None, None, None, str(entry[0])]
sheet_row(entry) ==
    <<entry[2], entry[4], Blank, FloatStr(entry[3]), Blank, FloatStr(entry[3]),
      Blank, Blank, Blank, entry[1]>>

\* <file>_google_sheets.csv: for entry in all_entries: writer.writerow(row)
sheets_rows(entries) == [i \in 1..Len(entries) |-> sheet_row(entries[i])]

\* <file>.csv: writer.writerow(attributes); writer.writerows(all_entries)
analysis_rows(entries) ==
    <<attributes>> \o
        [i \in 1..Len(entries) |->
            <<entries[i][1], entries[i][2], FloatStr(entries[i][3]), entries[i][4]>>]

-----------------------------------------------------------------------------
(* Specification of a run: __main__, __init__, main *)

Paths == {"a.csv", "b.csv"}

\* The window of a run is [D2, D3]. a.csv holds up to MaxRows rows dated within
\* it; b.csv holds one row, dated within it or the day before it.
RunDates(path) ==
    IF path = "a.csv" THEN SeqUpTo({D2, D3}, MaxRows) ELSE {<<d>> : d \in Dates}

\* A well-formed statement file at `path`, one row per date; descriptions
\* name the file and the row.
DiscoverRow(path, i, d) ==
    [k \in 1..Len(DiscoverHeader) |->
        IF DiscoverHeader[k] \in {"Trans. Date", "Post Date"} THEN d
        ELSE IF DiscoverHeader[k] = "Description" THEN <<path, i>>
        ELSE IF DiscoverHeader[k] = "Amount" THEN <<"1", ",", "2">>
        ELSE "x"]

BankRow(path, i, d) ==
    [k \in 1..Len(BankHeader) |->
        IF BankHeader[k] = "Post Date" THEN d
        ELSE IF BankHeader[k] = "Description" THEN <<path, i>>
        ELSE IF BankHeader[k] = "Debit" THEN (IF i % 2 = 1 THEN <<"2">> ELSE <<>>)
        ELSE IF BankHeader[k] = "Credit" THEN (IF i % 2 = 1 THEN <<>> ELSE <<"1">>)
        ELSE IF BankHeader[k] = "Classification" THEN "y"
        ELSE "d"]

\* A file with the columns of both kinds: either converter accepts it.
BothHeader == DiscoverHeader \o SubSeq(BankHeader, 3, Len(BankHeader))

BothRow(path, i, d) ==
    DiscoverRow(path, i, d) \o SubSeq(BankRow(path, i, d), 3, Len(BankHeader))

StatementFile(path, format, dates) ==
    IF format = "bank"
    THEN <<BankHeader>> \o [i \in 1..Len(dates) |-> BankRow(path, i, dates[i])]
    ELSE IF format = "both"
    THEN <<BothHeader>> \o [i \in 1..Len(dates) |-> BothRow(path, i, dates[i])]
    ELSE <<DiscoverHeader>> \o [i \in 1..Len(dates) |-> DiscoverRow(path, i, dates[i])]

Formats(path) ==
    IF path = "a.csv" THEN {"bank", "discover", "both"} ELSE {"bank", "discover"}

FilesAt(path) ==
    {StatementFile(path, format, dates) :
        format \in Formats(path), dates \in RunDates(path)}

\* The file systems of a run: b.csv exists, a.csv may be missing.
RunFileSystems ==
    {[path \in Paths |-> IF path = "a.csv" THEN a ELSE b] :
        a \in FilesAt("a.csv"), b \in FilesAt("b.csv")}
    \cup {[path \in {"b.csv"} |-> b] : b \in FilesAt("b.csv")}

\* with open(CATEGORIES_DATABASE, ...): yaml.safe_load_all(...): None when the
\* table is loaded, else the exception raised.
LoadOutcomes == {None, "FileNotFoundError", "YAMLError"}

\* A run is given at most MaxFiles statement arguments, of both kinds together.
Init ==
    /\ pc = "start"
    /\ fs \in RunFileSystems
    /\ bank_args \in {NoList} \cup {List(l) : l \in SeqUpTo(Paths, MaxFiles)}
    /\ discover_args \in {NoList} \cup {List(l) : l \in SeqUpTo(Paths, MaxFiles)}
    /\ Len(bank_args.list) + Len(discover_args.list) <= MaxFiles
    /\ start_date = date(D2)
    /\ end_date = date(D3)
    /\ translations = <<[name |-> "A", aliases |-> {"x"}]>>
    /\ statements = <<>>
    /\ input = <<>>
    /\ loads = 0
    /\ printed = <<>>
    /\ result = Pending
    /\ bank_statements = NoList
    /\ discover_credit_statements = NoList
    /\ all_entries = <<>>
    /\ sheets_csv = Absent
    /\ analysis_csv = Absent

\* not args.bank_statements: None or an empty list.
Falsy(list) == list.none \/ list.list = <<>>

\* if not args.bank_statements and not args.discover_credit_statements: raise
CheckArguments ==
    /\ pc = "start"
    /\ IF Falsy(bank_args) /\ Falsy(discover_args)
       THEN pc' = "aborted" /\ result' = Raise("RuntimeError")
       ELSE pc' = "clean_bank" /\ result' = result
    /\ UNCHANGED <<statements, input, start_date, end_date, translations, loads,
                   printed, fs, run>>

\* self.__bank_statements = self.__clean_statements(bank_statements, is_bank=True)
CleanBankStatements ==
    /\ pc = "clean_bank"
    /\ IF bank_args.none
       THEN /\ pc' = "clean_discover"
            /\ UNCHANGED <<input, bank_statements, loads, printed, result>>
       ELSE LET processed ==
                    filtered_statements(fs, bank_args.list, FALSE, TRUE,
                                        start_date, end_date)
            IN /\ input' = input \o read_calls(fs, bank_args.list, "bank")
               /\ \E load \in LoadOutcomes :
                    IF processed.error # None
                    THEN /\ pc' = "aborted"
                         /\ result' = processed
                         /\ UNCHANGED <<bank_statements, loads, printed>>
                    ELSE IF load # None
                    THEN /\ pc' = "aborted"
                         /\ result' = Raise(load)
                         /\ UNCHANGED <<bank_statements, loads, printed>>
                    ELSE /\ pc' = "clean_discover"
                         /\ loads' = loads + 1
                         /\ bank_statements' =
                                List(translate_statements(processed.value, translations))
                         /\ printed' = printed \o
                                translate_messages(processed.value, translations)
                         /\ result' = result
    /\ UNCHANGED <<statements, start_date, end_date, translations, fs,
                   bank_args, discover_args, discover_credit_statements,
                   all_entries, sheets_csv, analysis_csv>>

\* self.__discover_credit_statements =
\*     self.__clean_statements(discover_credit_statements, is_discover=True)
CleanDiscoverStatements ==
    /\ pc = "clean_discover"
    /\ IF discover_args.none
       THEN /\ pc' = "main"
            /\ UNCHANGED <<input, discover_credit_statements, loads, printed, result>>
       ELSE LET processed ==
                    filtered_statements(fs, discover_args.list, TRUE, FALSE,
                                        start_date, end_date)
            IN /\ input' = input \o read_calls(fs, discover_args.list, "discover")
               /\ \E load \in LoadOutcomes :
                    IF processed.error # None
                    THEN /\ pc' = "aborted"
                         /\ result' = processed
                         /\ UNCHANGED <<discover_credit_statements, loads, printed>>
                    ELSE IF load # None
                    THEN /\ pc' = "aborted"
                         /\ result' = Raise(load)
                         /\ UNCHANGED <<discover_credit_statements, loads, printed>>
                    ELSE /\ pc' = "main"
                         /\ loads' = loads + 1
                         /\ discover_credit_statements' =
                                List(translate_statements(processed.value, translations))
                         /\ printed' = printed \o
                                translate_messages(processed.value, translations)
                         /\ result' = result
    /\ UNCHANGED <<statements, start_date, end_date, translations, fs,
                   bank_args, discover_args, bank_statements,
                   all_entries, sheets_csv, analysis_csv>>

\* main: if should_write: compiler.write_to_csv()
Main ==
    /\ pc = "main"
    /\ \E should_write \in BOOLEAN :
        pc' = IF should_write THEN "write" ELSE "print_done"
    /\ UNCHANGED <<statements, input, start_date, end_date, translations, loads,
                   printed, result, fs, bank_args, discover_args, bank_statements,
                   discover_credit_statements, all_entries, sheets_csv, analysis_csv>>

\* What the file system may do to the two writes: each open() may fail, and a
\* write to either file may fail after part of the rows.
WriteOutcomes(entries) ==
    {"written", "first open fails", "second open fails"}
        \cup (IF entries = <<>> THEN {}
              ELSE {"first write fails", "second write fails"})

\* The rows a file holds when a write to it failed: all but the last.
Partial(rows) == SubSeq(rows, 1, Len(rows) - 1)

\* with open(self.__file + '_google_sheets.csv', 'w', ...): writer.writerow(row)
sheets_file(before, entries, outcome) ==
    IF outcome = "first open fails" THEN before
    ELSE IF outcome = "first write fails" THEN Written(Partial(sheets_rows(entries)))
    ELSE Written(sheets_rows(entries))

\* with open(self.__file + '.csv', 'w', ...): reached only after the first
\* with block ended normally.
analysis_file(before, entries, outcome) ==
    IF outcome \in {"first open fails", "first write fails", "second open fails"}
    THEN before
    ELSE IF outcome = "second write fails"
    THEN Written(Partial(analysis_rows(entries)))
    ELSE Written(analysis_rows(entries))

ErrorLine == Line("ERROR: could not write aggregated files", "file")

\* Mutant: an except clause that does not catch the error of the file system.
write_result_uncaught(outcome) ==
    IF outcome = "written" THEN Return(TRUE) ELSE Raise("OSError")

\* return True at the end of the try block; except: ... return False
write_result(outcome) == Return(outcome = "written")

\* write_to_csv: the bare except prints the error line and returns False.
WriteToCsv ==
    /\ pc = "write"
    /\ all_entries' =
            sort_entries(appended_entries(discover_credit_statements, bank_statements))
    /\ \E outcome \in WriteOutcomes(all_entries') :
        /\ sheets_csv' = sheets_file(sheets_csv, all_entries', outcome)
        /\ analysis_csv' = analysis_file(analysis_csv, all_entries', outcome)
        /\ result' = write_result(outcome)
        /\ printed' = IF result'.error = None /\ result'.value THEN printed
                      ELSE Append(printed, ErrorLine)
    /\ pc' = "print_done"
    /\ UNCHANGED <<statements, input, start_date, end_date, translations, loads, fs,
                   bank_args, discover_args, bank_statements,
                   discover_credit_statements>>

\* print("done")
PrintDone ==
    /\ pc = "print_done"
    /\ printed' = Append(printed, Line("done", ""))
    /\ pc' = "done"
    /\ UNCHANGED <<statements, input, start_date, end_date, translations, loads,
                   result, fs, run>>

Next ==
    \/ CheckArguments
    \/ CleanBankStatements
    \/ CleanDiscoverStatements
    \/ Main
    \/ WriteToCsv
    \/ PrintDone

Spec == Init /\ [][Next]_vars

-----------------------------------------------------------------------------
(* Properties of a run *)

\* write_to_csv has run (it is the only call of a run that returns a value).
WriteReturned == result.error = None

\* The processed statements in concatenation order: credit-card statements in
\* argument order, then bank statements in argument order, rows in file order.
Concatenation ==
    statement_rows(discover_credit_statements) \o statement_rows(bank_statements)

\* Statement k of a processed list holds rows of the k-th path, in row order.
InArgumentOrder(stmts, args) ==
    ~stmts.none =>
        /\ Len(stmts.list) = Len(args.list)
        /\ \A k \in 1..Len(stmts.list) :
            LET statement == stmts.list[k]
            IN /\ \A e \in 1..Len(statement) :
                    statement[e].Description[1] = args.list[k]
               /\ \A e, f \in 1..Len(statement) :
                    e < f => statement[e].Description[2] < statement[f].Description[2]

\* C2: the ledger is the stable descending-by-date sort of the concatenation:
\* entry i of the concatenation stands after exactly the entries with a later
\* date and the entries of the same date that precede it in the concatenation
\* (so dates never increase along the ledger and ties keep their order).
C2_LedgerIsStableDescendingSort ==
    WriteReturned =>
        /\ InArgumentOrder(discover_credit_statements, discover_args)
        /\ InArgumentOrder(bank_statements, bank_args)
        /\ Len(all_entries) = Len(Concatenation)
        /\ \A i \in 1..Len(Concatenation) :
            LET before == {j \in 1..Len(Concatenation) :
                            \/ date(Concatenation[j][1]) > date(Concatenation[i][1])
                            \/ /\ date(Concatenation[j][1]) = date(Concatenation[i][1])
                               /\ j < i}
            IN all_entries[Cardinality(before) + 1] = Concatenation[i]
        /\ \A k \in 1..(Len(all_entries) - 1) :
            date(all_entries[k][1]) >= date(all_entries[k + 1][1])

\* Witness: a ledger with a credit-card entry and a bank entry of the same
\* date (the credit-card one first) and entries of two different dates.
C2_Witness ==
    /\ WriteReturned
    /\ \E i, j \in 1..Len(all_entries) :
        /\ i < j
        /\ all_entries[i][1] = all_entries[j][1]
        /\ all_entries[i][4] = "A"
        /\ all_entries[j][4] = "y"
    /\ \E k \in 1..Len(all_entries) : all_entries[k][1] # all_entries[1][1]

\* C7 as stated: in any run the alias configuration is loaded at most once.
C7_AliasTableLoadedOnce == loads <= 1

\* C10: when write_to_csv returns True the spreadsheet artifact holds one row
\* per ledger entry, in ledger order and with no header row, each of ten
\* fields: description, category, blank, amount, blank, amount, blank, blank,
\* blank, date.
C10_SpreadsheetLayout ==
    (WriteReturned /\ result.value) =>
        /\ sheets_csv.exists
        /\ Len(sheets_csv.rows) = Len(all_entries)
        /\ \A k \in 1..Len(all_entries) :
            LET row == sheets_csv.rows[k]
                entry == all_entries[k]
            IN /\ Len(row) = 10
               /\ row[1] = entry[2]
               /\ row[2] = entry[4]
               /\ row[4] = FloatStr(entry[3])
               /\ row[6] = row[4]
               /\ \A blank \in {3, 5, 7, 8, 9} : row[blank] = ""
               /\ row[10] = entry[1]

\* Witness: a spreadsheet of at least two rows written, one of them a bank
\* credit (a negative amount).
C10_Witness ==
    /\ WriteReturned
    /\ result.value
    /\ Len(sheets_csv.rows) >= 2
    /\ \E k \in 1..Len(all_entries) :
        /\ all_entries[k][3] < 0
        /\ sheets_csv.rows[k][4] = <<"-", "1", ".", "0">>

\* C11: write_to_csv always returns a boolean (it never raises); it returns
\* True exactly when both artifacts were opened and written completely, and
\* otherwise returns False having printed the error line; the statements held
\* in memory are the same after the call.
C11_WriteFailureIsReturned ==
    [][pc = "write" =>
        /\ result'.error = None
        /\ result'.value \in BOOLEAN
        /\ result'.value <=>
                /\ sheets_csv' = Written(sheets_rows(all_entries'))
                /\ analysis_csv' = Written(analysis_rows(all_entries'))
        /\ printed' = IF result'.value THEN printed ELSE Append(printed, ErrorLine)
        /\ bank_statements' = bank_statements
        /\ discover_credit_statements' = discover_credit_statements]_vars

\* Witness: the first artifact was written, the second could not be opened,
\* and write_to_csv returned False after printing the error line.
C11_Witness ==
    /\ WriteReturned
    /\ ~result.value
    /\ Len(all_entries) >= 1
    /\ sheets_csv = Written(sheets_rows(all_entries))
    /\ ~analysis_csv.exists
    /\ printed[Len(printed)] = ErrorLine

\* The elements of a list.
Elements(list) == {list[i] : i \in 1..Len(list)}

\* The paths passed both as a bank statement and as a credit-card statement.
Conflicting ==
    IF bank_args.none \/ discover_args.none THEN {}
    ELSE Elements(bank_args.list) \cap Elements(discover_args.list)

\* The rows of `path` among `rows` (rows as write_to_csv appends them).
RowsOf(path, rows) == SelectSeq(rows, LAMBDA row : row[2][1] = path)

\* C12 as stated: a run given a path in both lists ends with the
\* configuration-conflict error and goes no further than that; the path is
\* never passed to __read_statement under either kind, and no row of it is
\* held in memory or in the ledger.
C12_ConflictFailsFast ==
    Conflicting # {} =>
        /\ pc \in {"start", "clean_bank", "clean_discover", "aborted"}
        /\ pc = "aborted" => result.error = ConflictError
        /\ \A path \in Conflicting :
            /\ <<path, "bank">> \notin Elements(input)
            /\ <<path, "discover">> \notin Elements(input)
            /\ RowsOf(path, Concatenation) = <<>>
            /\ RowsOf(path, all_entries) = <<>>

\* What the code does with such a path when the file has the columns of both
\* kinds: the ledger holds each of its rows twice.
C12_LedgerHoldsRowsTwice ==
    /\ WriteReturned
    /\ \E path \in Conflicting :
        /\ RowsOf(path, all_entries) # <<>>
        /\ \A i \in 1..Len(all_entries) :
            all_entries[i][2][1] = path =>
                \E j \in 1..Len(all_entries) :
                    j # i /\ all_entries[j][2] = all_entries[i][2]

\* Some statement file of the list cannot be read or converted as `kind`.
Fails(args, kind) ==
    /\ ~args.none
    /\ \E i \in 1..Len(args.list) : open_statement(fs, args.list[i], kind).error # None

\* The error of the first file of the list that cannot be read or converted.
FirstError(args, kind) ==
    LET failed == {i \in 1..Len(args.list) :
                        open_statement(fs, args.list[i], kind).error # None}
    IN open_statement(fs, args.list[CHOOSE i \in failed : \A j \in failed : i <= j],
                      kind).error

\* The field of a list every file of which was read and converted as `kind`,
\* then date-filtered, then category-translated.
Processed(args, kind) ==
    IF args.none THEN NoList
    ELSE List(translate_statements(
                filter_statements(
                    [i \in 1..Len(args.list) |->
                        read_statement(fs[args.list[i]], kind).value],
                    start_date, end_date),
                translations))

\* Every statement file of both kinds has been through the four stages.
AllProcessed ==
    /\ ~Fails(bank_args, "bank")
    /\ ~Fails(discover_args, "discover")
    /\ bank_statements = Processed(bank_args, "bank")
    /\ discover_credit_statements = Processed(discover_args, "discover")
    /\ bank_args.none \/
            \A path \in Elements(bank_args.list) : <<path, "bank">> \in Elements(input)
    /\ discover_args.none \/
            \A path \in Elements(discover_args.list) :
                <<path, "discover">> \in Elements(input)
    /\ loads = (IF bank_args.none THEN 0 ELSE 1) + (IF discover_args.none THEN 0 ELSE 1)

NoOutput == ~sheets_csv.exists /\ ~analysis_csv.exists

\* C13: write_to_csv is entered, and either artifact exists, only after every
\* statement file of both lists was read, converted, filtered and translated;
\* a file that cannot be read or converted ends the run with its error before
\* main is reached (the first such bank file, else the first such credit-card
\* file unless loading the alias table failed before), and a run that ended
\* with an error has written no artifact.
C13_OutputOnlyAfterAllProcessed ==
    /\ (pc \in {"main", "write", "print_done"} \/ ~NoOutput) => AllProcessed
    /\ pc = "aborted" =>
        /\ NoOutput
        /\ result.error \notin {None, "pending"}
    /\ (pc \notin {"start", "clean_bank"} /\ Fails(bank_args, "bank")) =>
        /\ pc = "aborted"
        /\ result.error = FirstError(bank_args, "bank")
    /\ (pc \notin {"start", "clean_bank", "clean_discover"}
            /\ ~Fails(bank_args, "bank") /\ Fails(discover_args, "discover")) =>
        /\ pc = "aborted"
        /\ result.error \in {FirstError(discover_args, "discover")}
                                \cup (LoadOutcomes \ {None})

\* Witness: the bank statements were processed, then a credit-card statement
\* could not be converted; the run ended with KeyError and wrote nothing.
C13_Witness ==
    /\ pc = "aborted"
    /\ result.error = "KeyError"
    /\ ~bank_statements.none
    /\ Concat(bank_statements.list) # <<>>
    /\ Fails(discover_args, "discover")
    /\ NoOutput

====
